---- MODULE Spec2Model ----
(***************************************************************************)
(* A model of example_package: the Calculator (arithmetic plus a history   *)
(* log held in a Python list object) and the DataProcessor (elementwise    *)
(* transforms, statistics and outlier filtering over a numeric sequence).  *)
(*                                                                         *)
(* Numbers are exact rationals tagged with their Python type:              *)
(*   [t |-> "int", n |-> k, d |-> 1]   or   [t |-> "float", n |-> p, d |-> q] *)
(* with q > 0 and gcd(p, q) = 1.  The inputs are chosen so that the        *)
(* Calculator's float results are dyadic, where IEEE-754 double arithmetic *)
(* is exact; rounding, overflow, infinities and signed zero are outside    *)
(* the model.                                                              *)
(***************************************************************************)
EXTENDS Integers, Sequences, FiniteSets, TLC

VARIABLES
    heap,          \* Python list objects: reference -> contents
    self_history,  \* Calculator.history: a reference into heap
    handles,       \* the references get_history has returned to the caller
    outcome,       \* the last call: [op, a, b, status, ret, prev]
    ncalls,        \* calls made so far in this run
    nsuccess,      \* successful arithmetic calls since construction
    nsince,        \* successful arithmetic calls since construction or the last clear_history
    log,           \* arguments of the successful arithmetic calls since construction or the last clear_history
    normalize,     \* DataProcessor.normalize
    data,          \* the caller's data list
    dp_out,        \* the last DataProcessor call: [call, arg, status, value]
    first_run      \* the first process call of the run: [op, status, value, stage]

calc_vars == <<heap, self_history, handles, outcome, ncalls, nsuccess, nsince, log>>
dp_vars == <<normalize, data, dp_out, first_run>>
vars == <<heap, self_history, handles, outcome, ncalls, nsuccess, nsince, log,
          normalize, data, dp_out, first_run>>

None == [t |-> "none"]

-----------------------------------------------------------------------------
(* Bounds and input sets *)

MaxCalls == 3
MaxLen == 3

-----------------------------------------------------------------------------
(* Python numbers *)

Abs(k) == IF k < 0 THEN -k ELSE k

RECURSIVE GCD(_, _)
GCD(a, b) == IF b = 0 THEN a ELSE GCD(b, a % b)

Sign(k) == IF k < 0 THEN -1 ELSE 1

\* the reduced fraction p/q (q # 0) as a float
Flt(p, q) ==
    LET g == GCD(Abs(p), Abs(q))
    IN  [t |-> "float", n |-> (Sign(q) * p) \div g, d |-> Abs(q) \div g]

PyInt(k) == [t |-> "int", n |-> k, d |-> 1]

\* float(x)
ToFloat(x) == [t |-> "float", n |-> x.n, d |-> x.d]

BothInt(a, b) == a.t = "int" /\ b.t = "int"

\* a + b, a - b, a * b: int when both operands are int, float otherwise
PyAdd(a, b) ==
    IF BothInt(a, b) THEN PyInt(a.n + b.n) ELSE Flt(a.n * b.d + b.n * a.d, a.d * b.d)

\* a mutant of PySub: the operands the wrong way round
PySubReversed(a, b) ==
    IF BothInt(a, b) THEN PyInt(b.n - a.n) ELSE Flt(b.n * a.d - a.n * b.d, a.d * b.d)

PySub(a, b) ==
    IF BothInt(a, b) THEN PyInt(a.n - b.n) ELSE Flt(a.n * b.d - b.n * a.d, a.d * b.d)

PyMul(a, b) ==
    IF BothInt(a, b) THEN PyInt(a.n * b.n) ELSE Flt(a.n * b.n, a.d * b.d)

\* a / b for b # 0: always a float
PyTrueDiv(a, b) == Flt(a.n * b.d, a.d * b.n)

\* b == 0: true of the int 0 and of the float 0.0
PyIsZero(b) == b.n = 0

\* the digits after the decimal point of r/d (0 <= r < d, d = 2^i * 5^j)
RECURSIVE FracDigits(_, _)
FracDigits(r, d) ==
    IF r = 0 THEN ""
    ELSE ToString((r * 10) \div d) \o FracDigits((r * 10) % d, d)

\* f"{x}": an int renders without a decimal point, a float with one
PyStr(x) ==
    IF x.t = "int" THEN ToString(x.n)
    ELSE LET m == Abs(x.n)
             frac == FracDigits(m % x.d, x.d)
         IN  (IF x.n < 0 THEN "-" ELSE "") \o ToString(m \div x.d) \o "."
             \o (IF frac = "" THEN "0" ELSE frac)

\* f"{a} <sym> {b} = {result}"
Entry(a, sym, b, result) ==
    PyStr(a) \o " " \o sym \o " " \o PyStr(b) \o " = " \o PyStr(result)

-----------------------------------------------------------------------------
(* Calculator *)

ArgsA == {PyInt(3), Flt(3, 2)}
ArgsB == {PyInt(0), Flt(0, 1), PyInt(2)}

History == heap[self_history]

\* raise ValueError("Cannot divide by zero")
DivisionByZero == "ValueError: Cannot divide by zero"

\* Calculator.__init__: self.history = []
CalcInit ==
    /\ self_history = 0
    /\ heap = (0 :> <<>>)
    /\ handles = <<>>
    /\ outcome = [op |-> "init", a |-> None, b |-> None, status |-> "ok", ret |-> None,
                  prev |-> "none"]
    /\ ncalls = 0
    /\ nsuccess = 0
    /\ nsince = 0
    /\ log = <<>>

\* what a call leaves for the caller: its name and arguments, how it ended, the
\* value returned, and the name of the call before it
Outcome(op, a, b, status, ret) ==
    [op |-> op, a |-> a, b |-> b, status |-> status, ret |-> ret, prev |-> outcome.op]

\* bookkeeping of a successful arithmetic call
Succeeded(op, a, b, result) ==
    /\ outcome' = Outcome(op, a, b, "ok", result)
    /\ ncalls' = ncalls + 1
    /\ nsuccess' = nsuccess + 1
    /\ nsince' = nsince + 1
    /\ log' = Append(log, [op |-> op, a |-> a, b |-> b])
    /\ UNCHANGED <<self_history, handles>>

\* a mutant of HistoryAppend: the entry is not recorded
HistoryAppendLost(s) == heap' = heap

\* self.history.append(s)
HistoryAppend(s) == heap' = [heap EXCEPT ![self_history] = Append(@, s)]

add(a, b) ==
    /\ ncalls < MaxCalls
    /\ LET result == PyAdd(a, b)
       IN  /\ HistoryAppend(Entry(a, "+", b, result))
           /\ Succeeded("add", a, b, result)

subtract(a, b) ==
    /\ ncalls < MaxCalls
    /\ LET result == PySub(a, b)
       IN  /\ HistoryAppend(Entry(a, "-", b, result))
           /\ Succeeded("subtract", a, b, result)

multiply(a, b) ==
    /\ ncalls < MaxCalls
    /\ LET result == PyMul(a, b)
       IN  /\ HistoryAppend(Entry(a, "*", b, result))
           /\ Succeeded("multiply", a, b, result)

\* a mutant of divide: no guard, so Python's own a / b raises ZeroDivisionError
divide_unguarded(a, b) ==
    /\ ncalls < MaxCalls
    /\ IF PyIsZero(b)
       THEN /\ outcome' = Outcome("divide", a, b, "ZeroDivisionError", None)
            /\ ncalls' = ncalls + 1
            /\ UNCHANGED <<heap, self_history, handles, nsuccess, nsince, log>>
       ELSE LET result == PyTrueDiv(a, b)
            IN  /\ HistoryAppend(Entry(a, "/", b, result))
                /\ Succeeded("divide", a, b, result)

divide(a, b) ==
    /\ ncalls < MaxCalls
    /\ IF PyIsZero(b)
       THEN /\ outcome' = Outcome("divide", a, b, DivisionByZero, None)
            /\ ncalls' = ncalls + 1
            /\ UNCHANGED <<heap, self_history, handles, nsuccess, nsince, log>>
       ELSE LET result == PyTrueDiv(a, b)
            IN  /\ HistoryAppend(Entry(a, "/", b, result))
                /\ Succeeded("divide", a, b, result)

\* a mutant of get_history: return self.history, the internal list itself
get_history_alias ==
    /\ ncalls < MaxCalls
    /\ handles' = Append(handles, self_history)
    /\ outcome' = Outcome("get_history", None, None, "ok", self_history)
    /\ ncalls' = ncalls + 1
    /\ UNCHANGED <<heap, self_history, nsuccess, nsince, log>>

\* return self.history.copy(): a new list object with the same contents
get_history ==
    /\ ncalls < MaxCalls
    /\ LET r == Len(handles) + 1
       IN  /\ heap' = (r :> heap[self_history]) @@ heap
           /\ handles' = Append(handles, r)
           /\ outcome' = Outcome("get_history", None, None, "ok", r)
    /\ ncalls' = ncalls + 1
    /\ UNCHANGED <<self_history, nsuccess, nsince, log>>

\* a mutant of clear_history: only the newest entry is dropped
clear_history_drop_last ==
    /\ ncalls < MaxCalls
    /\ heap' = [heap EXCEPT ![self_history] = SubSeq(@, 1, Len(@) - 1)]
    /\ outcome' = Outcome("clear_history", None, None, "ok", None)
    /\ ncalls' = ncalls + 1
    /\ nsince' = 0
    /\ log' = <<>>
    /\ UNCHANGED <<self_history, handles, nsuccess>>

\* self.history.clear()
clear_history ==
    /\ ncalls < MaxCalls
    /\ heap' = [heap EXCEPT ![self_history] = <<>>]
    /\ outcome' = Outcome("clear_history", None, None, "ok", None)
    /\ ncalls' = ncalls + 1
    /\ nsince' = 0
    /\ log' = <<>>
    /\ UNCHANGED <<self_history, handles, nsuccess>>

\* The caller mutates the list that the i-th get_history call returned.
CallerMutated(kind, i) ==
    /\ outcome' = Outcome(kind, i, None, "ok", None)
    /\ ncalls' = ncalls + 1
    /\ UNCHANGED <<self_history, handles, nsuccess, nsince, log>>

caller_append(i) ==
    /\ ncalls < MaxCalls
    /\ heap' = [heap EXCEPT ![handles[i]] = Append(@, "x")]
    /\ CallerMutated("caller_append", i)

caller_remove(i) ==
    /\ ncalls < MaxCalls
    /\ heap[handles[i]] # <<>>
    /\ heap' = [heap EXCEPT ![handles[i]] = Tail(@)]
    /\ CallerMutated("caller_remove", i)

caller_clear(i) ==
    /\ ncalls < MaxCalls
    /\ heap' = [heap EXCEPT ![handles[i]] = <<>>]
    /\ CallerMutated("caller_clear", i)

\* DataProcessor state while only the Calculator runs
DPIdle ==
    /\ normalize = FALSE
    /\ data = <<>>
    /\ dp_out = [call |-> "none", arg |-> None, status |-> "ok", value |-> None]
    /\ first_run = None

InitCalculator == CalcInit /\ DPIdle

NextCalculator ==
    \/ \E a \in ArgsA, b \in ArgsB : add(a, b) /\ UNCHANGED dp_vars
    \/ \E a \in ArgsA, b \in ArgsB : subtract(a, b) /\ UNCHANGED dp_vars
    \/ \E a \in ArgsA, b \in ArgsB : multiply(a, b) /\ UNCHANGED dp_vars
    \/ \E a \in ArgsA, b \in ArgsB : divide(a, b) /\ UNCHANGED dp_vars
    \/ get_history /\ UNCHANGED dp_vars
    \/ clear_history /\ UNCHANGED dp_vars
    \/ \E i \in 1..Len(handles) : caller_append(i) /\ UNCHANGED dp_vars
    \/ \E i \in 1..Len(handles) : caller_remove(i) /\ UNCHANGED dp_vars
    \/ \E i \in 1..Len(handles) : caller_clear(i) /\ UNCHANGED dp_vars

SpecCalculator == InitCalculator /\ [][NextCalculator]_vars


-----------------------------------------------------------------------------
(* numpy float64 arithmetic, as exact rationals.  A value that is the square  *)
(* root of a rational that is no perfect square is kept as the record         *)
(* [t |-> "root", of |-> q], the non-negative root of q; a division by zero   *)
(* gives NaN (numpy warns and does not raise).                                 *)

NaN == [t |-> "nan"]

FSub(x, y) == Flt(x.n * y.d - y.n * x.d, x.d * y.d)

FAdd(x, y) == Flt(x.n * y.d + y.n * x.d, x.d * y.d)

FMul(x, y) == Flt(x.n * y.n, x.d * y.d)

FDiv(x, y) == IF y.n = 0 THEN NaN ELSE Flt(x.n * y.d, x.d * y.n)

\* x < y
FLess(x, y) == x.n * y.d < y.n * x.d

\* a mutant of FAbs: the absolute value is not taken
FAbsMissing(x) == x

\* np.abs
FAbs(x) == Flt(Abs(x.n), x.d)

IsSquare(k) == \E r \in 0..k : r * r = k

ISqrt(k) == CHOOSE r \in 0..k : r * r = k

\* np.sqrt: NaN for a negative number
FSqrt(x) ==
    IF x.n < 0 THEN NaN
    ELSE IF IsSquare(x.n) /\ IsSquare(x.d) THEN Flt(ISqrt(x.n), ISqrt(x.d))
    ELSE [t |-> "root", of |-> x]

\* the square of a float or of a root
Sq(v) == IF v.t = "root" THEN v.of ELSE FMul(v, v)

\* np.abs(x / s) for s # 0, s a float or a root
AbsDiv(x, s) == FSqrt(FDiv(Sq(x), Sq(s)))

\* z < threshold for z >= 0, z a float or a root
RootLess(z, threshold) == threshold.n > 0 /\ FLess(Sq(z), Sq(threshold))

\* np.array(data, dtype=float)
np_array_float(d) == [i \in 1..Len(d) |-> ToFloat(d[i])]

\* np.array(data): int64 when every element is an int, float64 otherwise
np_array(d) ==
    IF \A i \in 1..Len(d) : d[i].t = "int" THEN d ELSE np_array_float(d)

RECURSIVE np_min(_)
np_min(arr) ==
    IF Len(arr) = 1 THEN arr[1]
    ELSE LET m == np_min(Tail(arr)) IN IF FLess(m, arr[1]) THEN m ELSE arr[1]

RECURSIVE np_max(_)
np_max(arr) ==
    IF Len(arr) = 1 THEN arr[1]
    ELSE LET m == np_max(Tail(arr)) IN IF FLess(arr[1], m) THEN m ELSE arr[1]

RECURSIVE np_sum(_)
np_sum(arr) == IF arr = <<>> THEN Flt(0, 1) ELSE FAdd(arr[1], np_sum(Tail(arr)))

np_mean(arr) == FDiv(np_sum(arr), Flt(Len(arr), 1))

\* np.std: the population standard deviation, sqrt(mean(|x - mean|^2))
np_std(arr) ==
    LET mean == np_mean(arr)
        dev == [i \in 1..Len(arr) |-> FMul(FSub(arr[i], mean), FSub(arr[i], mean))]
    IN  FSqrt(np_mean(dev))

np_zeros_like(arr) == [i \in 1..Len(arr) |-> Flt(0, 1)]

\* arr[mask]: the elements at the positions where mask holds, in order
RECURSIVE Masked(_, _)
Masked(arr, mask) ==
    IF arr = <<>> THEN <<>>
    ELSE (IF mask[1] THEN <<arr[1]>> ELSE <<>>) \o Masked(Tail(arr), Tail(mask))

-----------------------------------------------------------------------------
(* DataProcessor *)

Vals == {PyInt(-4), PyInt(0), Flt(1, 4)}
DataSets == UNION {[1..n -> Vals] : n \in 0..MaxLen}
Recognized == {"identity", "square", "sqrt", "normalize"}
Operations == Recognized \cup {"Square", "bogus"}
Thresholds == {PyInt(-1), PyInt(0), PyInt(1), Flt(2, 1)}

EmptyInput == "ValueError: Data cannot be empty"
InvalidOperation(operation) == "ValueError: Invalid operation: " \o operation

Raise(error) == [status |-> error, value |-> None]
Return(value) == [status |-> "ok", value |-> value]

\* a mutant of _normalize: no guard for max == min
_normalize_unguarded(arr) ==
    LET min_val == np_min(arr)
        max_val == np_max(arr)
    IN  [i \in 1..Len(arr) |-> FDiv(FSub(arr[i], min_val), FSub(max_val, min_val))]

_normalize(arr) ==
    LET min_val == np_min(arr)
        max_val == np_max(arr)
    IN  IF max_val = min_val
        THEN np_zeros_like(arr)
        ELSE [i \in 1..Len(arr) |-> FDiv(FSub(arr[i], min_val), FSub(max_val, min_val))]

\* the if/elif chain of process, for a recognized operation
apply_operation(arr, operation) ==
    CASE operation = "identity" -> arr
      [] operation = "square" -> [i \in 1..Len(arr) |-> FMul(arr[i], arr[i])]
      [] operation = "sqrt" -> [i \in 1..Len(arr) |-> FSqrt(FAbs(arr[i]))]
      [] operation = "normalize" -> _normalize(arr)

\* a mutant of process_call: the operation is checked before the data
process_call_operation_first(flag, d, operation) ==
    IF operation \notin Recognized THEN Raise(InvalidOperation(operation))
    ELSE IF d = <<>> THEN Raise(EmptyInput)
    ELSE LET result == apply_operation(np_array_float(d), operation)
         IN  Return(IF flag /\ operation # "normalize" THEN _normalize(result) ELSE result)

\* DataProcessor.process on a processor whose normalize flag is flag
process_call(flag, d, operation) ==
    IF d = <<>> THEN Raise(EmptyInput)
    ELSE LET arr == np_array_float(d)
         IN  IF operation \notin Recognized THEN Raise(InvalidOperation(operation))
             ELSE LET result == apply_operation(arr, operation)
                  IN  Return(IF flag /\ operation # "normalize"
                             THEN _normalize(result) ELSE result)

\* DataProcessor.statistics
statistics_call(d) ==
    IF d = <<>> THEN Raise(EmptyInput)
    ELSE LET arr == np_array(d)
         IN  Return([mean |-> np_mean(arr), std |-> np_std(arr),
                     min |-> ToFloat(np_min(arr)), max |-> ToFloat(np_max(arr))])

\* a mutant of TooSmall: the guard is off by one
TooSmallOffByOne(d) == Len(d) < 2

\* len(data) < 3
TooSmall(d) == Len(d) < 3

\* DataProcessor.filter_outliers
filter_outliers_call(d, threshold) ==
    IF d = <<>> THEN Raise(EmptyInput)
    ELSE IF TooSmall(d) THEN Return(d)
    ELSE LET arr == np_array(d)
             mean == np_mean(arr)
             std == np_std(arr)
         IN  IF std = Flt(0, 1) THEN Return(d)
             ELSE LET z_scores == [i \in 1..Len(arr) |-> AbsDiv(FSub(arr[i], mean), std)]
                      mask == [i \in 1..Len(arr) |-> RootLess(z_scores[i], threshold)]
                  IN  Return(Masked(arr, mask))

\* DataProcessor.__init__(normalize), and the data the caller holds
DPInit ==
    /\ normalize \in BOOLEAN
    /\ data \in DataSets
    /\ dp_out = [call |-> "none", arg |-> None, status |-> "ok", value |-> None]
    /\ first_run = None

\* first_run after a call: the first process call is kept, with how far the run
\* has got since: "ran", then "interleaved" once any other call was made, then
\* "rerun" once process was called again with the same operation
Noted(call, operation, r) ==
    IF first_run = None
    THEN IF call = "process"
         THEN [op |-> operation, status |-> r.status, value |-> r.value, stage |-> "ran"]
         ELSE None
    ELSE IF call = "process" /\ operation = first_run.op
         THEN IF first_run.stage = "interleaved"
              THEN [first_run EXCEPT !.stage = "rerun"]
              ELSE first_run
         ELSE IF first_run.stage = "ran"
              THEN [first_run EXCEPT !.stage = "interleaved"]
              ELSE first_run

DPOut(call, arg, r) == [call |-> call, arg |-> arg, status |-> r.status, value |-> r.value]

process(operation) ==
    LET r == process_call(normalize, data, operation)
    IN  /\ dp_out' = DPOut("process", operation, r)
        /\ first_run' = Noted("process", operation, r)
        /\ UNCHANGED <<normalize, data>>

statistics ==
    /\ dp_out' = DPOut("statistics", None, statistics_call(data))
    /\ first_run' = Noted("statistics", None, None)
    /\ UNCHANGED <<normalize, data>>

\* a mutant of filter_outliers: the caller's list is filtered in place
filter_outliers_in_place(threshold) ==
    LET r == filter_outliers_call(data, threshold)
    IN  /\ dp_out' = DPOut("filter_outliers", threshold, r)
        /\ data' = IF r.status = "ok" THEN r.value ELSE data
        /\ first_run' = Noted("filter_outliers", None, None)
        /\ UNCHANGED normalize

filter_outliers(threshold) ==
    /\ dp_out' = DPOut("filter_outliers", threshold, filter_outliers_call(data, threshold))
    /\ first_run' = Noted("filter_outliers", None, None)
    /\ UNCHANGED <<normalize, data>>

InitDataProcessor == CalcInit /\ DPInit

NextDataProcessor ==
    \/ \E operation \in Operations : process(operation) /\ UNCHANGED calc_vars
    \/ statistics /\ UNCHANGED calc_vars
    \/ \E threshold \in Thresholds : filter_outliers(threshold) /\ UNCHANGED calc_vars

SpecDataProcessor == InitDataProcessor /\ [][NextDataProcessor]_vars

-----------------------------------------------------------------------------
(* Properties of the Calculator *)

Arithmetic == {"add", "subtract", "multiply", "divide"}
CallerOps == {"caller_append", "caller_remove", "caller_clear"}

\* the step is a call (every call counts in ncalls) named op
IsCall(op) == ncalls' = ncalls + 1 /\ outcome'.op = op

\* C1 as stated: the length of history equals the number of successful
\* arithmetic calls made since construction.
C1_LengthIsAllSuccesses == Len(History) = nsuccess

\* C1, amended: the length of history equals the number of successful
\* arithmetic calls made since construction or the last clear_history.
C1_LengthIsSuccessesSinceClear == Len(History) = nsince

C1_Witness == nsince = 1 /\ nsuccess = 2 /\ Len(History) = 1

\* C2: divide(a, b) with b the int 0 or the float 0.0 ends in the
\* division-by-zero error, returns no value and leaves history as it was.
C2_DivideByZeroKeepsHistory ==
    [][(IsCall("divide") /\ outcome'.b \in {PyInt(0), Flt(0, 1)})
         => /\ outcome'.status = DivisionByZero
            /\ outcome'.ret = None
            /\ History' = History]_vars

C2_Witness ==
    /\ outcome.op = "divide"
    /\ outcome.b = Flt(0, 1)
    /\ outcome.status = DivisionByZero
    /\ Len(History) = 2

\* What Python prints and returns for each successful call on the inputs of the
\* model: <<op, a, b, history entry, returned value>>.
I0 == PyInt(0)
I2 == PyInt(2)
I3 == PyInt(3)
F0 == Flt(0, 1)
F15 == Flt(3, 2)
Expected ==
    { <<"add", I3, I0, "3 + 0 = 3", PyInt(3)>>,
      <<"subtract", I3, I0, "3 - 0 = 3", PyInt(3)>>,
      <<"multiply", I3, I0, "3 * 0 = 0", PyInt(0)>>,
      <<"add", I3, F0, "3 + 0.0 = 3.0", Flt(3, 1)>>,
      <<"subtract", I3, F0, "3 - 0.0 = 3.0", Flt(3, 1)>>,
      <<"multiply", I3, F0, "3 * 0.0 = 0.0", Flt(0, 1)>>,
      <<"add", I3, I2, "3 + 2 = 5", PyInt(5)>>,
      <<"subtract", I3, I2, "3 - 2 = 1", PyInt(1)>>,
      <<"multiply", I3, I2, "3 * 2 = 6", PyInt(6)>>,
      <<"divide", I3, I2, "3 / 2 = 1.5", Flt(3, 2)>>,
      <<"add", F15, I0, "1.5 + 0 = 1.5", Flt(3, 2)>>,
      <<"subtract", F15, I0, "1.5 - 0 = 1.5", Flt(3, 2)>>,
      <<"multiply", F15, I0, "1.5 * 0 = 0.0", Flt(0, 1)>>,
      <<"add", F15, F0, "1.5 + 0.0 = 1.5", Flt(3, 2)>>,
      <<"subtract", F15, F0, "1.5 - 0.0 = 1.5", Flt(3, 2)>>,
      <<"multiply", F15, F0, "1.5 * 0.0 = 0.0", Flt(0, 1)>>,
      <<"add", F15, I2, "1.5 + 2 = 3.5", Flt(7, 2)>>,
      <<"subtract", F15, I2, "1.5 - 2 = -0.5", Flt(-1, 2)>>,
      <<"multiply", F15, I2, "1.5 * 2 = 3.0", Flt(3, 1)>>,
      <<"divide", F15, I2, "1.5 / 2 = 0.75", Flt(3, 4)>> }

ExpectedRow(op, a, b) ==
    CHOOSE row \in Expected : row[1] = op /\ row[2] = a /\ row[3] = b

\* C3: every successful arithmetic call returns the arithmetic result and
\* appends its entry "{a} <op> {b} = {result}" at the end of history, leaving
\* the earlier entries unchanged, so history is the sequence of the entries of
\* the successful arithmetic calls made since construction or the last
\* clear_history, in call order.
C3_HistoryIsCallOrder ==
    /\ [](History = [i \in 1..Len(log) |-> ExpectedRow(log[i].op, log[i].a, log[i].b)[4]])
    /\ []((outcome.op \in Arithmetic /\ outcome.status = "ok")
            => outcome.ret = ExpectedRow(outcome.op, outcome.a, outcome.b)[5])
    /\ [][(outcome'.op \in Arithmetic /\ ncalls' = ncalls + 1 /\ outcome'.status = "ok")
            => History' = Append(History,
                                 ExpectedRow(outcome'.op, outcome'.a, outcome'.b)[4])]_vars

C3_Witness ==
    /\ Len(History) = 2
    /\ History[1] # History[2]
    /\ outcome.op = "subtract"
    /\ outcome.prev = "divide"
    /\ nsuccess = 2

\* C4: get_history returns a copy: it leaves history as it is and returns its
\* contents; a later mutation of a returned list changes neither the internal
\* history nor any other returned list; and a later Calculator operation
\* changes no list returned earlier.
C4_GetHistoryReturnsCopy ==
    [][/\ IsCall("get_history")
            => History' = History /\ heap'[outcome'.ret] = History
       /\ \A i \in 1..Len(handles) :
            (outcome'.op \in CallerOps /\ ncalls' = ncalls + 1 /\ outcome'.a = i)
              => /\ History' = History
                 /\ \A j \in 1..Len(handles) :
                      j # i => heap'[handles'[j]] = heap[handles[j]]
       /\ (outcome'.op \in Arithmetic \cup {"get_history", "clear_history"}
             /\ ncalls' = ncalls + 1)
            => \A j \in 1..Len(handles) : heap'[handles'[j]] = heap[handles[j]]]_vars

C4_Witness ==
    /\ Len(handles) = 2
    /\ outcome.op = "caller_append"
    /\ heap[handles[1]] # heap[handles[2]]
    /\ heap[handles[1]] # History

C4_WitnessLaterCall ==
    /\ Len(handles) = 1
    /\ outcome.op \in Arithmetic
    /\ outcome.status = "ok"
    /\ outcome.prev = "get_history"
    /\ Len(heap[handles[1]]) = 1
    /\ Len(History) = 2

\* C5: clear_history never errors and leaves history empty, also when history
\* is empty already; a second clear_history in a row changes nothing.
C5_ClearHistoryEmptiesIdempotent ==
    [][IsCall("clear_history")
         => /\ outcome'.status = "ok"
            /\ History' = <<>>
            /\ outcome.op = "clear_history"
                 => <<heap, self_history, handles>>' = <<heap, self_history, handles>>]_vars

C5_Witness ==
    /\ outcome.op = "clear_history"
    /\ outcome.prev = "clear_history"
    /\ nsuccess = 1
    /\ History = <<>>

C5_WitnessNonEmpty ==
    /\ outcome.op = "clear_history"
    /\ outcome.prev \in Arithmetic
    /\ nsuccess = 2
    /\ History = <<>>

-----------------------------------------------------------------------------
(* Properties of the DataProcessor *)

\* comparison and equality of numbers by value, whatever their Python type
Leq(x, y) == x.n * y.d <= y.n * x.d
NumEq(x, y) == x.n * y.d = y.n * x.d

Elems(sq) == {sq[i] : i \in 1..Len(sq)}
Least(sq) == CHOOSE m \in Elems(sq) : \A y \in Elems(sq) : Leq(m, y)
Greatest(sq) == CHOOSE m \in Elems(sq) : \A y \in Elems(sq) : Leq(y, m)

\* min-max scaling of a sequence of floats: (x - lo) / (hi - lo), zeros when hi = lo
Scaled(sq) ==
    LET lo == Least(sq)
        hi == Greatest(sq)
    IN  [i \in 1..Len(sq) |->
           IF NumEq(lo, hi) THEN Flt(0, 1)
           ELSE Flt((sq[i].n * lo.d - lo.n * sq[i].d) * hi.d,
                    sq[i].d * (hi.n * lo.d - lo.n * hi.d))]

SmallFloats == {Flt(p, q) : p \in 0..4, q \in 1..4}

\* op applied to one element, as a float
Elementwise(op, x) ==
    CASE op = "identity" -> Flt(x.n, x.d)
      [] op = "square" -> Flt(x.n * x.n, x.d * x.d)
      [] op = "sqrt" -> CHOOSE r \in SmallFloats : r.n * r.n * x.d = Abs(x.n) * r.d * r.d

AsFloats(d) == [i \in 1..Len(d) |-> Flt(d[i].n, d[i].d)]

\* T(op(data))
Processed(flag, d, op) ==
    LET mid == IF op = "normalize" THEN Scaled(AsFloats(d))
               ELSE [i \in 1..Len(d) |-> Elementwise(op, d[i])]
    IN  IF flag /\ op # "normalize" THEN Scaled(mid) ELSE mid

\* C6: for non-empty data and an operation among identity, square, sqrt and
\* normalize, process returns T(op(data)), of the length and in the order of
\* the input: op elementwise (the normalize transform for normalize), T the
\* normalize transform when the normalize flag is set and the operation is not
\* normalize, and the identity otherwise.
C6_ProcessIsOpThenNormalize ==
    (dp_out.call = "process" /\ data # <<>>
       /\ dp_out.arg \in {"identity", "square", "sqrt", "normalize"})
      => /\ dp_out.status = "ok"
         /\ Len(dp_out.value) = Len(data)
         /\ dp_out.value = Processed(normalize, data, dp_out.arg)

C6_Witness ==
    /\ dp_out.call = "process"
    /\ dp_out.arg = "sqrt"
    /\ normalize
    /\ data = <<PyInt(-4), PyInt(0), Flt(1, 4)>>
    /\ dp_out.value = <<Flt(1, 1), Flt(0, 1), Flt(1, 4)>>

IsFinite(v) == v.t = "float"

\* C7: the normalize transform never divides by zero: for max = min it gives
\* zeros of the same length; otherwise element i is (x_i - min) / (max - min),
\* so every element lies in [0, 1], each minimum maps to 0 and each maximum
\* to 1.  (The transform is applied to the data itself when the operation is
\* normalize, or identity under the normalize flag.)
C7_NormalizeIsMinMax ==
    (dp_out.call = "process" /\ dp_out.status = "ok"
       /\ (dp_out.arg = "normalize" \/ (normalize /\ dp_out.arg = "identity")))
      => LET v == dp_out.value
             lo == Least(data)
             hi == Greatest(data)
         IN  /\ Len(v) = Len(data)
             /\ \A i \in 1..Len(v) :
                  /\ IsFinite(v[i])
                  /\ NumEq(lo, hi) => v[i] = Flt(0, 1)
                  /\ ~NumEq(lo, hi) =>
                       /\ v[i].n * data[i].d * lo.d * (hi.n * lo.d - lo.n * hi.d)
                            = v[i].d * hi.d * lo.d * (data[i].n * lo.d - lo.n * data[i].d)
                       /\ Leq(Flt(0, 1), v[i]) /\ Leq(v[i], Flt(1, 1))
                       /\ NumEq(data[i], lo) => v[i] = Flt(0, 1)
                       /\ NumEq(data[i], hi) => v[i] = Flt(1, 1)

C7_Witness ==
    /\ dp_out.call = "process"
    /\ dp_out.arg = "normalize"
    /\ data = <<Flt(1, 4), Flt(1, 4), Flt(1, 4)>>
    /\ dp_out.value = <<Flt(0, 1), Flt(0, 1), Flt(0, 1)>>

C7_WitnessSpread ==
    /\ dp_out.call = "process"
    /\ dp_out.arg = "identity"
    /\ normalize
    /\ data = <<PyInt(0), PyInt(-4), Flt(1, 4)>>
    /\ dp_out.value = <<Flt(16, 17), Flt(0, 1), Flt(1, 1)>>

RECURSIVE SumTo(_, _)
SumTo(f, k) == IF k = 0 THEN 0 ELSE f[k] + SumTo(f, k - 1)

RECURSIVE ProdTo(_, _)
ProdTo(f, k) == IF k = 0 THEN 1 ELSE f[k] * ProdTo(f, k - 1)

\* With D a common denominator, X_i = D * x_i and S the sum of the X_i, element
\* i is N * X_i - S away from the mean (in units of 1 / (N * D)), and the
\* variance is the sum of the squares of these divided by N.
Deviations(d) ==
    LET N == Len(d)
        D == ProdTo([i \in 1..N |-> d[i].d], N)
        X == [i \in 1..N |-> d[i].n * (D \div d[i].d)]
        S == SumTo(X, N)
    IN  [i \in 1..N |-> N * X[i] - S]

SumSquares(d) ==
    LET dev == Deviations(d) IN SumTo([i \in 1..Len(d) |-> dev[i] * dev[i]], Len(d))

\* |x_i - mean| / std < threshold, for std # 0
Inlier(d, i, threshold) ==
    /\ threshold.n > 0
    /\ Deviations(d)[i] * Deviations(d)[i] * Len(d) * threshold.d * threshold.d
         < threshold.n * threshold.n * SumSquares(d)

RECURSIVE Inliers(_, _, _)
Inliers(d, k, threshold) ==
    IF k = 0 THEN <<>>
    ELSE Inliers(d, k - 1, threshold)
           \o (IF Inlier(d, k, threshold) THEN <<d[k]>> ELSE <<>>)

SameValues(s1, s2) ==
    Len(s1) = Len(s2) /\ \A i \in 1..Len(s1) : NumEq(s1[i], s2[i])

\* C8: for non-empty data, filter_outliers returns the input unchanged when it
\* has fewer than 3 elements or its population standard deviation is zero,
\* whatever the threshold; otherwise exactly the elements with
\* |x - mean| / std < threshold, in their order and with duplicates kept, so
\* a threshold <= 0 gives the empty sequence.
C8_FilterOutliersKeepsInliers ==
    (dp_out.call = "filter_outliers" /\ data # <<>>)
      => /\ dp_out.status = "ok"
         /\ IF Len(data) < 3 \/ SumSquares(data) = 0
            THEN dp_out.value = data
            ELSE /\ SameValues(dp_out.value, Inliers(data, Len(data), dp_out.arg))
                 /\ dp_out.arg.n <= 0 => dp_out.value = <<>>

C8_Witness ==
    /\ dp_out.call = "filter_outliers"
    /\ dp_out.arg = PyInt(1)
    /\ data = <<PyInt(0), PyInt(-4), PyInt(0)>>
    /\ dp_out.value = <<PyInt(0), PyInt(0)>>

C8_WitnessNegativeThreshold ==
    /\ dp_out.call = "filter_outliers"
    /\ dp_out.arg = PyInt(-1)
    /\ data = <<PyInt(0), Flt(1, 4), PyInt(0)>>
    /\ dp_out.value = <<>>

\* C9: every DataProcessor method given an empty sequence ends in the
\* empty-input error with no result, whatever the operation name, the
\* normalize flag or the threshold; process on non-empty data ends in the
\* invalid-operation error exactly when the operation is not one of identity,
\* square, sqrt, normalize.
C9_EmptyInputThenInvalidOperation ==
    /\ (dp_out.call # "none" /\ data = <<>>)
         => dp_out.status = "ValueError: Data cannot be empty" /\ dp_out.value = None
    /\ (dp_out.call # "none" /\ data # <<>>)
         => dp_out.status # "ValueError: Data cannot be empty"
    /\ (dp_out.call = "process" /\ data # <<>>)
         => LET invalid == dp_out.status = "ValueError: Invalid operation: " \o dp_out.arg
            IN  /\ invalid <=> dp_out.arg \notin {"identity", "square", "sqrt", "normalize"}
                /\ invalid => dp_out.value = None
                /\ ~invalid => dp_out.status = "ok"

C9_Witness ==
    /\ dp_out.call = "process"
    /\ dp_out.arg = "bogus"
    /\ normalize
    /\ data = <<>>
    /\ dp_out.status = "ValueError: Data cannot be empty"

C9_WitnessInvalid ==
    /\ dp_out.call = "process"
    /\ dp_out.arg = "Square"
    /\ normalize
    /\ Len(data) = 2
    /\ dp_out.status = "ValueError: Invalid operation: Square"

\* C10: no DataProcessor call changes the normalize flag or the caller's data,
\* and a process call with the operation of the run's first process call ends
\* as that one did, whatever calls were made in between.
C10_CallsLeaveFlagAndData ==
    [][/\ normalize' = normalize
       /\ data' = data
       /\ (dp_out'.call = "process" /\ first_run # None /\ first_run.op = dp_out'.arg)
            => dp_out'.status = first_run.status /\ dp_out'.value = first_run.value]_vars

C10_Witness ==
    /\ first_run # None
    /\ first_run.stage = "rerun"
    /\ normalize
    /\ data = <<PyInt(0), PyInt(-4), PyInt(0)>>
    /\ dp_out.call = "process"
    /\ dp_out.arg = "square"
    /\ dp_out.value = <<Flt(0, 1), Flt(1, 1), Flt(0, 1)>>

====
